---- MODULE Spec2Model ----
(***************************************************************************)
(* BanglaSTT, transcribe.py: one run of the command-line tool, from the    *)
(* import of the speech-model library to the process exit.                 *)
(*                                                                         *)
(* Strings are sequences of one-character strings, so that suffix          *)
(* extraction, lower-casing, sorting, joining and stripping are computed.  *)
(* The collaborators (whisper, imageio_ffmpeg, the decoder subprocess, the *)
(* file system) are opaque: each call draws its outcome from the outcomes  *)
(* the collaborator can produce.                                           *)
(***************************************************************************)
EXTENDS Integers, Sequences, FiniteSets, TLC

VARIABLES
    pc,               \* position of the run
    whisperInstalled, \* environment: `import whisper` succeeds
    argv,             \* the command line
    args,             \* argparse namespace (main, line 225)
    exists,           \* environment: os.path.exists(args.audio_file), now
    vanished,         \* environment: the input file was removed during the run
    content,          \* environment: what the input file holds
    environ,          \* os.environ: IMAGEIO_FFMPEG_EXE and PATH
    load_audio,       \* binding of whisper.audio.load_audio
    locator,          \* outcome of the imageio_ffmpeg collaborator
    ffmpeg_path,      \* main's ffmpeg_path (line 228)
    validated,        \* result of validate_audio_file (line 233)
    calls,            \* calls made into the whisper library, in order
    stdout,           \* lines printed, in order
    outputFile,       \* output.txt in the working directory
    outputFile0,      \* output.txt when the process started
    resultText,       \* result["text"] returned by model.transcribe
    transcription,    \* local `transcription` of transcribe_audio (line 147)
    returned,         \* main's `transcription` (line 237)
    cause,            \* what went wrong inside transcribe_audio
    exc,              \* class of the exception raised inside transcribe_audio
    uncaught,         \* exception that reached the process boundary
    exitCode          \* process exit status, None while the process runs

vars == <<pc, whisperInstalled, argv, args, exists, vanished, content, environ,
          load_audio, locator, ffmpeg_path, validated, calls, stdout,
          outputFile, outputFile0, resultText, transcription, returned,
          cause, exc, uncaught, exitCode>>

----------------------------------------------------------------------------
(* Bounds *)

\* longest text model.transcribe returns
MaxTextLen == 3

----------------------------------------------------------------------------
(* Optional values: Python's None and a present value *)

None == [some |-> FALSE, val |-> <<>>]

Some(v) == [some |-> TRUE, val |-> v]

\* main's `transcription` before and after transcribe_audio returns
NotReturned == [done |-> FALSE, value |-> None]

Returned(v) == [done |-> TRUE, value |-> v]

----------------------------------------------------------------------------
(* String helpers *)

\* code points of the characters that occur in extensions
Code == ("." :> 46 @@ "3" :> 51 @@ "4" :> 52 @@ "a" :> 97 @@ "b" :> 98
         @@ "e" :> 101 @@ "g" :> 103 @@ "m" :> 109 @@ "p" :> 112
         @@ "t" :> 116 @@ "v" :> 118 @@ "w" :> 119 @@ "x" :> 120)

\* str.lower on the characters that occur in the inputs
LowerMap == ("M" :> "m" @@ "P" :> "p" @@ "W" :> "w" @@ "A" :> "a" @@ "V" :> "v")

LowerChar(c) == IF c \in DOMAIN LowerMap THEN LowerMap[c] ELSE c

Lower(s) == [i \in 1..Len(s) |-> LowerChar(s[i])]

\* index of the last occurrence of c in s, 0 when there is none (str.rfind + 1)
RFind(s, c) ==
    IF \E i \in 1..Len(s) : s[i] = c
    THEN CHOOSE i \in 1..Len(s) : s[i] = c /\ \A j \in (i+1)..Len(s) : s[j] # c
    ELSE 0

\* final component of a path (PurePath.name)
Name(p) == SubSeq(p, RFind(p, "/") + 1, Len(p))

\* PurePath.suffix: from the last dot of the name, unless the dot is the
\* first or the last character of the name
Suffix(p) ==
    LET name == Name(p)
        i == RFind(name, ".")
    IN IF 1 < i /\ i < Len(name) THEN SubSeq(name, i, Len(name)) ELSE <<>>

\* Python's order on str: lexicographic by code point
RECURSIVE StrLess(_, _)
StrLess(a, b) ==
    IF b = <<>> THEN FALSE
    ELSE IF a = <<>> THEN TRUE
    ELSE IF Code[Head(a)] # Code[Head(b)] THEN Code[Head(a)] < Code[Head(b)]
    ELSE StrLess(Tail(a), Tail(b))

\* variant: sorted(S, reverse=True)
RECURSIVE Sorted_Reverse(_)
Sorted_Reverse(S) ==
    IF S = {} THEN <<>>
    ELSE LET m == CHOOSE x \in S : \A y \in S \ {x} : StrLess(y, x)
         IN <<m>> \o Sorted_Reverse(S \ {m})

\* sorted(S)
RECURSIVE Sorted(_)
Sorted(S) ==
    IF S = {} THEN <<>>
    ELSE LET m == CHOOSE x \in S : \A y \in S \ {x} : StrLess(x, y)
         IN <<m>> \o Sorted(S \ {m})

\* sep.join(parts)
RECURSIVE Join(_, _)
Join(parts, sep) ==
    IF parts = <<>> THEN <<>>
    ELSE IF Len(parts) = 1 THEN parts[1]
    ELSE parts[1] \o sep \o Join(Tail(parts), sep)

IsSpace(c) == c \in {" "}

RECURSIVE LStrip(_)
LStrip(s) == IF s # <<>> /\ IsSpace(Head(s)) THEN LStrip(Tail(s)) ELSE s

RECURSIVE RStrip(_)
RStrip(s) ==
    IF s # <<>> /\ IsSpace(s[Len(s)]) THEN RStrip(SubSeq(s, 1, Len(s) - 1)) ELSE s

\* str.strip()
Strip(s) == RStrip(LStrip(s))

\* os.path.dirname / os.path.basename of a path held as its components
Dirname(p) == SubSeq(p, 1, Len(p) - 1)

Basename(p) == IF p = <<>> THEN "" ELSE p[Len(p)]

Msg(tag, text) == [tag |-> tag, text |-> text]

Tags(out) == {out[i].tag : i \in 1..Len(out)}

----------------------------------------------------------------------------
(* Inputs and environment *)

mp3 == <<".", "m", "p", "3">>
wav == <<".", "w", "a", "v">>
m4a == <<".", "m", "4", "a">>
mp4 == <<".", "m", "p", "4">>
webm == <<".", "w", "e", "b", "m">>
mpeg == <<".", "m", "p", "e", "g">>
mpga == <<".", "m", "p", "g", "a">>

\* supported_formats (line 108)
supported_formats == {mp3, wav, m4a, mp4, webm, mpeg, mpga}

\* choices of -m/--model (line 199)
ModelChoices == {"tiny", "base", "small", "medium", "large"}

\* paths given on the command line
AudioFiles ==
    {<<"a">> \o e : e \in supported_formats}
    \cup { <<"a", ".", "M", "P", "3">>,         \* upper-case extension
           <<"a", ".", "W", "a", "v">>,         \* mixed-case extension
           <<"n", ".", "t", "x", "t">>,         \* disallowed extension
           <<"a">>,                             \* no extension
           <<".", "m", "p", "3">>,              \* hidden file, no suffix
           <<"a", ".", "w", "a", "v", ".">>,    \* trailing dot, no suffix
           <<"a", ".", "m", "p", "3", "/", "b">>, \* suffix on the directory only
           <<"a", ".", "t", "x", "t", ".", "m", "p", "4">> }

NoArgs == [kind |-> "none", audio_file |-> <<>>, model |-> "base",
           output |-> FALSE, verbose |-> FALSE]

\* command lines: well-formed ones, -h, a missing positional, a bad -m value
ArgvSet ==
    [kind : {"ok"}, audio_file : AudioFiles, model : {"base"},
     output : BOOLEAN, verbose : BOOLEAN]
    \cup {[NoArgs EXCEPT !.kind = "help"],
          [NoArgs EXCEPT !.kind = "no_audio_file"],
          [NoArgs EXCEPT !.kind = "ok", !.audio_file = <<"a">> \o wav, !.model = "tiny"],
          [NoArgs EXCEPT !.kind = "ok", !.audio_file = <<"a">> \o mp3, !.model = "huge"]}

\* what imageio_ffmpeg.get_ffmpeg_exe() can return, as path components
FfmpegExes == {<<"opt", "ff", "ffmpeg">>, <<"ffmpeg-win64.exe">>}

\* outcomes of lines 36-37: a path, the module missing, no executable found
LocatorOutcomes == {"ok", "ImportError", "RuntimeError"}

RECURSIVE SeqsUpTo(_, _)
SeqsUpTo(S, n) ==
    IF n = 0 THEN {<<>>}
    ELSE LET shorter == SeqsUpTo(S, n - 1)
         IN shorter \cup {Append(s, c) : s \in shorter, c \in S}

\* texts model.transcribe can return
Texts == SeqsUpTo({" ", "a"}, MaxTextLen)

\* output.txt before the run: absent, empty, or holding an older transcript
OldFiles == {None, Some(<<>>), Some(<<"o", "l", "d">>)}

environ0 == [IMAGEIO_FFMPEG_EXE |-> None, PATH |-> << <<"usr", "bin">> >>]

----------------------------------------------------------------------------
(* Functions of transcribe.py *)

\* variant: the except clause of line 47 is missing
setup_ffmpeg_windows_NoCatch(outcome, exe, env) ==
    IF outcome = "ok"
    THEN [ret |-> Some(exe),
          env |-> [IMAGEIO_FFMPEG_EXE |-> Some(exe),
                   PATH |-> <<Dirname(exe)>> \o env.PATH],
          out |-> <<Msg("ffmpeg_configured", <<Basename(exe)>>)>>,
          raised |-> "none"]
    ELSE [ret |-> None, env |-> env, out |-> <<>>, raised |-> outcome]

\* setup_ffmpeg_windows: its return value, os.environ afterwards, what it
\* prints, and the exception that leaves it ("none" when it returns)
setup_ffmpeg_windows(outcome, exe, env) ==
    CASE outcome = "ok" ->
           [ret |-> Some(exe),
            env |-> [IMAGEIO_FFMPEG_EXE |-> Some(exe),
                     PATH |-> <<Dirname(exe)>> \o env.PATH],
            out |-> <<Msg("ffmpeg_configured", <<Basename(exe)>>)>>,
            raised |-> "none"]
      [] outcome = "ImportError" ->
           [ret |-> None, env |-> env,
            out |-> <<Msg("warning_imageio_ffmpeg_not_found", <<>>)>>,
            raised |-> "none"]
      [] OTHER ->
           \* only ImportError is caught (line 47)
           [ret |-> None, env |-> env, out |-> <<>>, raised |-> outcome]

\* `if ffmpeg_path:` (line 229): None and "" are false
Truthy(path) == path.some /\ path.val # <<>>

\* variant: the extension is checked before the existence
validate_audio_file_ExtFirst(file_path, file_exists) ==
    LET file_extension == Lower(Suffix(file_path))
    IN IF file_extension \notin supported_formats
       THEN [ret |-> FALSE,
             out |-> <<Msg("unsupported_format", file_extension),
                       Msg("supported_formats",
                           Join(Sorted(supported_formats), <<",", " ">>))>>]
       ELSE IF ~file_exists
       THEN [ret |-> FALSE, out |-> <<Msg("does_not_exist", file_path)>>]
       ELSE [ret |-> TRUE, out |-> <<>>]

\* validate_audio_file: return value and what it prints
validate_audio_file(file_path, file_exists) ==
    LET file_extension == Lower(Suffix(file_path))
    IN IF ~file_exists
       THEN [ret |-> FALSE, out |-> <<Msg("does_not_exist", file_path)>>]
       ELSE IF file_extension \notin supported_formats
       THEN [ret |-> FALSE,
             out |-> <<Msg("unsupported_format", file_extension),
                       Msg("supported_formats",
                           Join(Sorted(supported_formats), <<",", " ">>))>>]
       ELSE [ret |-> TRUE, out |-> <<>>]

\* subprocess.run(cmd, check=True) in patched_load_audio (lines 87-90): the
\* decoder exits non-zero when it cannot open or cannot decode the input
DecoderExitsNonZero(file_exists, file_content) ==
    ~file_exists \/ file_content # "speech"

\* the except clauses of transcribe_audio (lines 165-173), first match wins
ExceptDiagnostic(e) ==
    CASE e = "FileNotFoundError" -> "audio_file_not_found"
      [] e = "RuntimeError" -> "failed_to_load_whisper_model"
      [] OTHER -> "error_during_transcription"

\* variant: the text is not trimmed
Transcript_NoStrip(text) == text

\* transcription = result["text"].strip() (line 147)
Transcript(text) == Strip(text)

\* variant: the file is written whatever the flag
ShouldSave_Always(save_output) == TRUE

\* `if save_output:` (line 157)
ShouldSave(save_output) == save_output

\* variant: the file is opened in append mode
FileAfterOpen_Append(old) == IF old.some THEN old ELSE Some(<<>>)

\* open(output_file, "w") truncates or creates the file (line 159)
FileAfterOpen(old) == Some(<<>>)

\* f.write(transcription) into the file just opened (line 160)
FileAfterWrite(opened, text) == Some(opened.val \o text)

----------------------------------------------------------------------------
(* The run *)

Init ==
    /\ pc = "import_whisper"
    /\ whisperInstalled \in BOOLEAN
    /\ argv \in ArgvSet
    /\ args = NoArgs
    /\ exists \in BOOLEAN
    /\ vanished = FALSE
    /\ content \in {"speech", "garbage"}
    /\ environ = environ0
    /\ load_audio = "default"
    /\ locator = "unset"
    /\ ffmpeg_path = None
    /\ validated = "unset"
    /\ calls = <<>>
    /\ stdout = <<>>
    /\ outputFile0 \in OldFiles
    /\ outputFile = outputFile0
    /\ resultText = None
    /\ transcription = None
    /\ returned = NotReturned
    /\ cause = "none"
    /\ exc = "none"
    /\ uncaught = "none"
    /\ exitCode = None

\* sys.exit(code)
Exit(code) == pc' = "exited" /\ exitCode' = Some(code)

\* lines 20-25
ImportWhisper ==
    /\ pc = "import_whisper"
    /\ IF whisperInstalled
       THEN /\ pc' = "parse_args"
            /\ UNCHANGED <<stdout, exitCode>>
       ELSE /\ stdout' = stdout \o <<Msg("whisper_not_installed", <<>>),
                                     Msg("pip_install_hint", <<>>)>>
            /\ Exit(1)
    /\ UNCHANGED <<whisperInstalled, argv, args, exists, vanished, content, environ,
                   load_audio, locator, ffmpeg_path, validated, calls,
                   outputFile, outputFile0, resultText, transcription,
                   returned, cause, exc, uncaught>>

\* parser.parse_args() (lines 224-225): -h prints the help and exits 0, a
\* missing positional or a -m value outside the choices exits 2
ParseArgs ==
    /\ pc = "parse_args"
    /\ IF argv.kind = "help"
       THEN /\ stdout' = stdout \o <<Msg("help", <<>>)>>
            /\ Exit(0)
            /\ UNCHANGED args
       ELSE IF argv.kind = "no_audio_file" \/ argv.model \notin ModelChoices
       THEN /\ Exit(2)
            /\ UNCHANGED <<stdout, args>>
       ELSE /\ args' = argv
            /\ pc' = "setup_ffmpeg"
            /\ UNCHANGED <<stdout, exitCode>>
    /\ UNCHANGED <<whisperInstalled, argv, exists, vanished, content, environ,
                   load_audio, locator, ffmpeg_path, validated, calls,
                   outputFile, outputFile0, resultText, transcription,
                   returned, cause, exc, uncaught>>

\* ffmpeg_path = setup_ffmpeg_windows() (line 228); an exception that leaves
\* it leaves main too and ends the process with a traceback, status 1
SetupFfmpeg ==
    /\ pc = "setup_ffmpeg"
    /\ \E outcome \in LocatorOutcomes, exe \in FfmpegExes :
         LET r == setup_ffmpeg_windows(outcome, exe, environ)
         IN /\ locator' = outcome
            /\ environ' = r.env
            /\ stdout' = stdout \o r.out
            /\ ffmpeg_path' = r.ret
            /\ IF r.raised = "none"
               THEN /\ pc' = "patch"
                    /\ UNCHANGED <<uncaught, exitCode>>
               ELSE /\ uncaught' = r.raised
                    /\ Exit(1)
    /\ UNCHANGED <<whisperInstalled, argv, args, exists, vanished, content,
                   load_audio, validated, calls, outputFile, outputFile0,
                   resultText, transcription, returned, cause, exc>>

\* lines 229-230, patch_whisper_ffmpeg (line 95)
PatchWhisper ==
    /\ pc = "patch"
    /\ load_audio' = IF Truthy(ffmpeg_path) THEN "patched" ELSE load_audio
    /\ pc' = "validate"
    /\ UNCHANGED <<whisperInstalled, argv, args, exists, vanished, content, environ,
                   locator, ffmpeg_path, validated, calls, stdout,
                   outputFile, outputFile0, resultText, transcription,
                   returned, cause, exc, uncaught, exitCode>>

\* variant: a rejected input does not end the run
Validate_NoExit ==
    /\ pc = "validate"
    /\ LET r == validate_audio_file(args.audio_file, exists)
       IN /\ stdout' = stdout \o r.out
          /\ validated' = IF r.ret THEN "accepted" ELSE "rejected"
          /\ pc' = "load_model"
    /\ UNCHANGED <<whisperInstalled, argv, args, exists, vanished, content,
                   environ, load_audio, locator, ffmpeg_path, calls,
                   outputFile, outputFile0, resultText, transcription,
                   returned, cause, exc, uncaught, exitCode>>

\* lines 233-234
Validate ==
    /\ pc = "validate"
    /\ LET r == validate_audio_file(args.audio_file, exists)
       IN /\ stdout' = stdout \o r.out
          /\ IF r.ret
             THEN /\ validated' = "accepted"
                  /\ pc' = "load_model"
                  /\ UNCHANGED exitCode
             ELSE /\ validated' = "rejected"
                  /\ Exit(1)
    /\ UNCHANGED <<whisperInstalled, argv, args, exists, vanished, content, environ,
                   load_audio, locator, ffmpeg_path, calls, outputFile,
                   outputFile0, resultText, transcription, returned, cause,
                   exc, uncaught>>

\* environment: the input file is removed between validation and use
FileVanishes ==
    /\ pc \in {"load_model", "transcribe"}
    /\ exists
    /\ exists' = FALSE
    /\ vanished' = TRUE
    /\ UNCHANGED <<pc, whisperInstalled, argv, args, content, environ,
                   load_audio, locator, ffmpeg_path, validated, calls,
                   stdout, outputFile, outputFile0, resultText,
                   transcription, returned, cause, exc, uncaught, exitCode>>

\* an exception of class e raised inside the try block of transcribe_audio:
\* the matching except clause prints its diagnostic and returns None
Except(e, why, out) ==
    /\ exc' = e
    /\ cause' = why
    /\ stdout' = out \o <<Msg(ExceptDiagnostic(e), <<>>)>>
    /\ returned' = Returned(None)
    /\ pc' = "check_result"

\* lines 138-139
LoadModel ==
    /\ pc = "load_model"
    /\ calls' = Append(calls, "load_model")
    /\ LET out == Append(stdout, Msg("loading_model", <<args.model>>))
       IN \E outcome \in {"ok", "RuntimeError"} :
            IF outcome = "ok"
            THEN /\ stdout' = out
                 /\ pc' = "transcribe"
                 /\ UNCHANGED <<returned, cause, exc>>
            ELSE Except(outcome, "model_load_failed", out)
    /\ UNCHANGED <<whisperInstalled, argv, args, exists, vanished, content, environ,
                   load_audio, locator, ffmpeg_path, validated, outputFile,
                   outputFile0, resultText, transcription, uncaught, exitCode>>

\* lines 141-154: model.transcribe decodes the file through
\* whisper.audio.load_audio, then the transcript is trimmed and printed
Transcribe ==
    /\ pc = "transcribe"
    /\ calls' = Append(calls, "transcribe")
    /\ LET out == stdout \o <<Msg("transcribing", Name(args.audio_file)),
                              Msg("may_take_minutes", <<>>)>>
       IN IF DecoderExitsNonZero(exists, content)
          THEN \* the override raises RuntimeError (line 90); without it a
               \* missing file is the FileNotFoundError of line 165
               /\ Except(IF load_audio = "default" /\ ~exists
                         THEN "FileNotFoundError" ELSE "RuntimeError",
                         IF exists THEN "decoder_nonzero" ELSE "file_vanished",
                         out)
               /\ UNCHANGED <<resultText, transcription>>
          ELSE \/ /\ Except("Exception", "other", out)
                  /\ UNCHANGED <<resultText, transcription>>
               \/ \E text \in Texts :
                    /\ resultText' = Some(text)
                    /\ transcription' = Some(Transcript(text))
                    /\ stdout' = out \o <<Msg("banner", <<>>),
                                          Msg("bangla_transcription", <<>>),
                                          Msg("banner", <<>>),
                                          Msg("transcript", Transcript(text)),
                                          Msg("banner", <<>>)>>
                    /\ pc' = "save"
                    /\ UNCHANGED <<returned, cause, exc>>
    /\ UNCHANGED <<whisperInstalled, argv, args, exists, vanished, content, environ,
                   load_audio, locator, ffmpeg_path, validated, outputFile,
                   outputFile0, uncaught, exitCode>>

\* lines 157-163: the optional write of output.txt, then the return; the
\* open may fail, and the write may fail after part of the text, which the
\* generic except clause catches
SaveAndReturn ==
    /\ pc = "save"
    /\ IF ShouldSave(args.output)
       THEN \/ /\ outputFile' = FileAfterWrite(FileAfterOpen(outputFile),
                                               transcription.val)
               /\ stdout' = Append(stdout, Msg("saved_to", <<"output.txt">>))
               /\ returned' = Returned(transcription)
               /\ pc' = "check_result"
               /\ UNCHANGED <<cause, exc>>
            \/ /\ UNCHANGED outputFile
               /\ Except("Exception", "open_failed", stdout)
            \/ /\ \E n \in {0} \cup 1..(Len(transcription.val) - 1) :
                    outputFile' = FileAfterWrite(FileAfterOpen(outputFile),
                                                 SubSeq(transcription.val, 1, n))
               /\ Except("Exception", "write_failed", stdout)
       ELSE /\ returned' = Returned(transcription)
            /\ pc' = "check_result"
            /\ UNCHANGED <<outputFile, stdout, cause, exc>>
    /\ UNCHANGED <<whisperInstalled, argv, args, exists, vanished, content, environ,
                   load_audio, locator, ffmpeg_path, validated, calls,
                   outputFile0, resultText, transcription, uncaught, exitCode>>

\* variant: a missing result is not turned into exit status 1
CheckResult_NoExit ==
    /\ pc = "check_result"
    /\ pc' = "summary"
    /\ UNCHANGED <<whisperInstalled, argv, args, exists, vanished, content,
                   environ, load_audio, locator, ffmpeg_path, validated,
                   calls, stdout, outputFile, outputFile0, resultText,
                   transcription, returned, cause, exc, uncaught, exitCode>>

\* lines 243-244
CheckResult ==
    /\ pc = "check_result"
    /\ IF returned.value = None
       THEN Exit(1)
       ELSE pc' = "summary" /\ UNCHANGED exitCode
    /\ UNCHANGED <<whisperInstalled, argv, args, exists, vanished, content, environ,
                   load_audio, locator, ffmpeg_path, validated, calls,
                   stdout, outputFile, outputFile0, resultText,
                   transcription, returned, cause, exc, uncaught>>

\* lines 247-255, then main returns and the process ends with status 0
Summary ==
    /\ pc = "summary"
    /\ stdout' = stdout
         \o <<Msg("completed", <<>>), Msg("audio_file", args.audio_file),
              Msg("model_used", <<args.model>>), Msg("text_length", <<>>)>>
         \o (IF args.verbose
             THEN <<Msg("ffmpeg_path",
                        IF Truthy(ffmpeg_path) THEN ffmpeg_path.val
                        ELSE <<"System default">>),
                    Msg("language", <<"bn">>)>>
             ELSE <<>>)
    /\ Exit(0)
    /\ UNCHANGED <<whisperInstalled, argv, args, exists, vanished, content, environ,
                   load_audio, locator, ffmpeg_path, validated, calls,
                   outputFile, outputFile0, resultText, transcription,
                   returned, cause, exc, uncaught>>

Next ==
    \/ ImportWhisper
    \/ ParseArgs
    \/ SetupFfmpeg
    \/ PatchWhisper
    \/ Validate
    \/ FileVanishes
    \/ LoadModel
    \/ Transcribe
    \/ SaveAndReturn
    \/ CheckResult
    \/ Summary

Spec == Init /\ [][Next]_vars

----------------------------------------------------------------------------
(* Properties *)

Exited == pc = "exited"

Printed(tag) == tag \in Tags(stdout)

LastTag == IF stdout = <<>> THEN "" ELSE stdout[Len(stdout)].tag

ReturnedNone == returned.done /\ returned.value = None

ReturnedTranscript == returned.done /\ returned.value.some

\* the input file was on disk when validate_audio_file looked
Existed == exists \/ vanished

Sep == <<",", " ">>

\* the seven allowed extensions in sorted order, joined as line 119 prints them
SortedFormatsLine ==
    m4a \o Sep \o mp3 \o Sep \o mp4 \o Sep \o mpeg \o Sep \o mpga
        \o Sep \o wav \o Sep \o webm

\* the command-line paths whose extension, lower-cased, is one of the seven
AllowedPaths ==
    { <<"a", ".", "m", "p", "3">>, <<"a", ".", "w", "a", "v">>,
      <<"a", ".", "m", "4", "a">>, <<"a", ".", "m", "p", "4">>,
      <<"a", ".", "w", "e", "b", "m">>, <<"a", ".", "m", "p", "e", "g">>,
      <<"a", ".", "m", "p", "g", "a">>, <<"a", ".", "M", "P", "3">>,
      <<"a", ".", "W", "a", "v">>,
      <<"a", ".", "t", "x", "t", ".", "m", "p", "4">> }

Spaces(n) == [i \in 1..n |-> " "]

\* t is raw without its leading and trailing blanks
IsTrimOf(t, raw) ==
    /\ \E i, j \in 0..Len(raw) : raw = Spaces(i) \o t \o Spaces(j)
    /\ t # <<>> => t[1] # " " /\ t[Len(t)] # " "

\* the command line is rejected by the argument parser
UsageError == argv.kind = "no_audio_file" \/ argv.model \notin ModelChoices

\* C1, as claimed: the exit code is 1 if the speech-model library is absent,
\* if validate_audio_file rejects the input or if transcribe_audio returns
\* None, and 0 in every other run.
C1_ExitCodeAsClaimed ==
    Exited =>
      exitCode = IF ~whisperInstalled \/ validated = "rejected" \/ ReturnedNone
                 THEN Some(1) ELSE Some(0)

\* C1, amended: the exit code is 1 if the speech-model library is absent, if
\* validate_audio_file rejects the input, if transcribe_audio returns None or
\* if an exception leaves main uncaught; it is 2 if the argument parser
\* rejects the command line; it is 0 in every other run (help requested, or
\* a transcript returned, an empty one included). No code is set before exit.
C1_ExitCode ==
    /\ ~Exited => exitCode = None
    /\ Exited =>
         exitCode =
           IF \/ ~whisperInstalled
              \/ validated = "rejected"
              \/ ReturnedNone
              \/ uncaught # "none"
           THEN Some(1)
           ELSE IF argv.kind # "help" /\ UsageError THEN Some(2)
           ELSE Some(0)

\* a run that returned an empty transcript and ended with status 0
C1_Witness ==
    /\ Exited
    /\ exitCode = Some(0)
    /\ returned = Returned(Some(<<>>))
    /\ resultText = Some(<<" ", " ">>)

\* C2: whenever validate_audio_file rejects the input the process has exited
\* with code 1 and neither whisper.load_model nor model.transcribe was ever
\* called; any call into the model comes after an accepting validation.
C2_ValidationBeforeModel ==
    /\ validated = "rejected" => Exited /\ exitCode = Some(1) /\ calls = <<>>
    /\ calls # <<>> => validated = "accepted"

\* missing.mp3: rejected, "does not exist" printed, no model call
C2_Witness ==
    /\ validated = "rejected"
    /\ args.audio_file = <<"a", ".", "m", "p", "3">>
    /\ ~Existed
    /\ Printed("does_not_exist")
    /\ Exited

\* C3: validate_audio_file checks existence first and extension second: a
\* path that does not exist is rejected with the "does not exist" diagnostic
\* alone; a path that exists and whose lower-cased suffix is one of the seven
\* is accepted without diagnostic whatever the file holds; nothing else is
\* accepted.
C3_Validator ==
    validated # "unset" =>
      /\ ~Existed =>
           /\ validated = "rejected"
           /\ LastTag = "does_not_exist"
           /\ stdout[Len(stdout)].text = args.audio_file
           /\ ~Printed("unsupported_format")
      /\ Existed /\ args.audio_file \in AllowedPaths =>
           /\ validated = "accepted"
           /\ ~Printed("does_not_exist")
           /\ ~Printed("unsupported_format")
      /\ validated = "accepted" =>
           Existed /\ args.audio_file \in AllowedPaths

\* an upper-case extension on a file that holds no audio is accepted
C3_Witness ==
    /\ validated = "accepted"
    /\ args.audio_file = <<"a", ".", "M", "P", "3">>
    /\ content = "garbage"
    /\ pc = "load_model"

\* C4, as claimed: every path whose extension is outside the allow-list is
\* rejected with the "unsupported format" diagnostic and the sorted list.
C4_UnsupportedAsClaimed ==
    validated # "unset" /\ args.audio_file \notin AllowedPaths =>
      /\ validated = "rejected"
      /\ Printed("unsupported_format")
      /\ LastTag = "supported_formats"
      /\ stdout[Len(stdout)].text = SortedFormatsLine

\* C4, amended: every path that exists and whose extension is outside the
\* allow-list is rejected with the "unsupported format" diagnostic followed
\* by the seven allowed extensions in sorted order; a path that does not
\* exist gets the "does not exist" diagnostic instead, whatever its extension.
C4_Unsupported ==
    validated # "unset" /\ args.audio_file \notin AllowedPaths =>
      /\ validated = "rejected"
      /\ Existed =>
           /\ stdout[Len(stdout) - 1].tag = "unsupported_format"
           /\ LastTag = "supported_formats"
           /\ stdout[Len(stdout)].text = SortedFormatsLine
           /\ ~Printed("does_not_exist")
      /\ ~Existed =>
           /\ LastTag = "does_not_exist"
           /\ ~Printed("unsupported_format")
           /\ ~Printed("supported_formats")

\* notes.txt exists and is rejected with the list of formats
C4_Witness ==
    /\ validated = "rejected"
    /\ args.audio_file = <<"n", ".", "t", "x", "t">>
    /\ Existed
    /\ LastTag = "supported_formats"

\* C5: in a run without -o/--output, output.txt is at every point what it
\* was when the process started, whether the run succeeds or fails.
C5_NoFlagNoWrite ==
    ~argv.output => outputFile = outputFile0

\* a successful run without the flag, no output.txt before or after
C5_Witness ==
    /\ Exited
    /\ exitCode = Some(0)
    /\ ~args.output
    /\ returned = Returned(Some(<<"a", " ", "a">>))
    /\ outputFile0 = None
    /\ outputFile = None

\* C6: when the flag is set and transcribe_audio returned a transcript,
\* output.txt exists and holds exactly that transcript, which is the trimmed
\* text of the model and the one printed, in place of any earlier content.
C6_SavedTranscript ==
    ReturnedTranscript /\ args.output =>
      /\ outputFile = returned.value
      /\ IsTrimOf(outputFile.val, resultText.val)
      /\ \E i \in 1..Len(stdout) : stdout[i] = Msg("transcript", outputFile.val)
      /\ \A i \in 1..Len(stdout) :
           stdout[i].tag = "transcript" => stdout[i].text = outputFile.val

\* an older output.txt replaced by the trimmed transcript
C6_Witness ==
    /\ ReturnedTranscript
    /\ args.output
    /\ outputFile0 = Some(<<"o", "l", "d">>)
    /\ resultText = Some(<<" ", "a", " ">>)
    /\ outputFile = Some(<<"a">>)
    /\ Exited

\* C7: no exception reaches the process boundary uncaught in any stage of
\* the run; every failure of the locator is handled.
C7_NothingUncaught ==
    uncaught = "none"

\* C8: every failure inside transcribe_audio yields None with the diagnostic
\* of its cause: "not found" exactly when the input file vanished, "Failed to
\* load Whisper model" exactly when the model failed to load, the generic one
\* otherwise; a decoder that exits non-zero is reported with the generic
\* transcription diagnostic, and the process exits 1.
C8_DiagnosticPerCause ==
    /\ cause # "none" => ReturnedNone
    /\ ReturnedNone =>
         /\ LastTag = "audio_file_not_found" <=> cause = "file_vanished"
         /\ LastTag = "failed_to_load_whisper_model" <=> cause = "model_load_failed"
         /\ LastTag = "error_during_transcription"
              <=> cause \notin {"file_vanished", "model_load_failed"}
         /\ Exited => exitCode = Some(1)

\* C9: when imageio_ffmpeg cannot be imported, setup_ffmpeg_windows returns
\* None after the warning, os.environ is untouched, the loader override is
\* not installed (it is installed only with a resolved path), and the run
\* goes on to validation instead of ending.
C9_LocatorUnavailable ==
    /\ locator = "ImportError" =>
         /\ ffmpeg_path = None
         /\ Printed("warning_imageio_ffmpeg_not_found")
         /\ environ = environ0
         /\ load_audio = "default"
         /\ uncaught = "none"
         /\ Exited => validated # "unset"
    /\ load_audio = "patched" => locator = "ok" /\ Truthy(ffmpeg_path)

\* the locator is missing and the run still transcribes and exits 0
C9_Witness ==
    /\ locator = "ImportError"
    /\ Exited
    /\ exitCode = Some(0)
    /\ calls = <<"load_model", "transcribe">>

PrePrintCauses == {"model_load_failed", "file_vanished", "decoder_nonzero", "other"}

\* C10, as claimed: whenever transcribe_audio returned None, output.txt is
\* what it was before the run and no transcript was printed.
C10_FailedRunAsClaimed ==
    ReturnedNone =>
      /\ outputFile = outputFile0
      /\ ~Printed("transcript")

\* C10, amended: when transcribe_audio returns None because loading the model
\* or model.transcribe failed, output.txt is what it was before the run and
\* no transcript was printed, with or without the flag, and the process exits
\* 1. Only with the flag set can a run fail later, at opening or writing
\* output.txt: the transcript is then already printed; a failed open leaves
\* output.txt as it was, a failed write leaves it created or emptied, holding
\* at most a proper part of the transcript and nothing of its old content.
C10_FailedRun ==
    ReturnedNone =>
      /\ Exited => exitCode = Some(1)
      /\ cause \in PrePrintCauses =>
           outputFile = outputFile0 /\ ~Printed("transcript")
      /\ cause \notin PrePrintCauses =>
           /\ args.output
           /\ cause \in {"open_failed", "write_failed"}
           /\ Printed("transcript")
           /\ LastTag = "error_during_transcription"
      /\ cause = "open_failed" => outputFile = outputFile0
      /\ cause = "write_failed" =>
           /\ outputFile.some
           /\ \E n \in 0..Len(transcription.val) :
                /\ n = 0 \/ n < Len(transcription.val)
                /\ outputFile.val = SubSeq(transcription.val, 1, n)

\* the decoder fails with the flag set and an older output.txt on disk
C10_Witness ==
    /\ ReturnedNone
    /\ Exited
    /\ args.output
    /\ cause = "decoder_nonzero"
    /\ outputFile0 = Some(<<"o", "l", "d">>)
    /\ outputFile = outputFile0

====
